---------------------------- MODULE Spec2Model ----------------------------
(***************************************************************************)
(* State-machine model of the ADSP-SC5xx cpufreq driver.                   *)
(*                                                                         *)
(* Two builds of the driver exist in the repository:                       *)
(*   "cgu"  src/drivers/cpufreq/sc5xx-cpufreq.c  (CLK "sys_clkin0", reads  *)
(*          the CGU_DIV register in set_sc5xx_cpu_freq)                    *)
(*   "clk"  src/unnamed/part_000                 (CLK "arm", changes the   *)
(*          rate through clk_set_rate)                                     *)
(* The build (which file, which CONFIG_ARCH option) is fixed in Init.      *)
(*                                                                         *)
(* Values are C unsigned int / int.  TLC integers are 32-bit signed, so    *)
(* every value drawn here stays below 2^31; CPUFREQ_TABLE_END (~1u) is     *)
(* written as the same bit pattern read as a signed int.                   *)
(***************************************************************************)
EXTENDS Integers, Sequences, FiniteSets, TLC

VARIABLES
    variant,                \* which source file is built: "cgu" or "clk"
    platform,               \* which CONFIG_ARCH option is defined
    sc5xx_frequency_table,  \* the static table, indexed from 0
    cgu_div,                \* the word behind ioremap(CGU_DIV, 4)
    clk_rate,               \* rate of the clock named CLK
    clk_refs,               \* handles returned by clk_get and not yet clk_put
    policy,                 \* the struct cpufreq_policy fields sc5xx_init sets
    pc,                     \* position of the running callback
    call,                   \* the running / last callback: arguments, locals, result
    ncalls,                 \* callbacks entered so far
    callers,                \* concurrent callers of target_index (SpecConc only)
    calc                    \* scratch of the divisor calculator (SpecCalc only)

vars == <<variant, platform, sc5xx_frequency_table, cgu_div, clk_rate, clk_refs,
          policy, pc, call, ncalls, callers, calc>>

build == <<variant, platform, sc5xx_frequency_table>>

-----------------------------------------------------------------------------
(* Bounds of the model *)

\* callbacks the framework enters in one run
MaxCalls == 3

\* the busy-wait counter saturates here (the loop itself has no cap)
MaxPolls == 2

\* largest DIVISOR_SELECT value the register starts with in the driver run
MaxCsel == 1

\* largest divisor the calculator is applied to
MaxDivisor == 15

\* contexts calling target_index at the same time
NumCallers == 2

-----------------------------------------------------------------------------
(* Program constants *)

CGU_DIV_UPDT_MASK == 16384

CGU_DIV_CSEL_MASK == 15

TRANSITION_LATENCY_NS == 50000

ENODEV == 19

\* ~1u, as a signed 32-bit pattern
CPUFREQ_TABLE_END == -2

\* an error clk_set_rate reports (-EINVAL)
EINVAL == 22

Variants == {"cgu", "clk"}

\* SC58X / SC59X_64 define both the frequencies and CGU_DIV; SC59X defines
\* the frequencies but leaves CGU_DIV at -1; any other build defines neither.
Platforms == {"SC58X", "SC59X", "NONE"}

MIN_MHZ(p) == IF p \in {"SC58X", "SC59X"} THEN 800 ELSE 0

MAX_MHZ(p) == IF p \in {"SC58X", "SC59X"} THEN 1000 ELSE 0

HasCguDiv(p) == p = "SC58X"

\* rates the clock service may report for CLK (Hz)
Rates == {0, 800000, 1000000, 25000000}

\* what an uninitialised automatic variable may hold
Uninit == {0, 1000000, 2147483647}

\* policy limits the framework hands to verify (kHz)
PolicyValues == {0, 800000, 1000000, 1200000}

\* bits of CGU_DIV other than UPDT and CSEL (SYSSEL ... ), as a whole
OtherBits == {0, 256}

RegValues == {u * CGU_DIV_UPDT_MASK + o + c :
                 u \in {0, 1}, o \in OtherBits, c \in 0..MaxCsel}

Indexes == 0..3

-----------------------------------------------------------------------------
(* Register fields *)

UpdtSet(reg) == (reg \div CGU_DIV_UPDT_MASK) % 2 = 1

Csel(reg) == reg % (CGU_DIV_CSEL_MASK + 1)

\* the condition of the busy-wait loop: while(!readl(cgu_div))
WaitCond(reg) == reg = 0

IS_ERR_VALUE(err) == err < 0

-----------------------------------------------------------------------------
(* The frequency table *)

\* the two real entries in the wrong order
FrequencyTable_MinFirst(p) ==
    [i \in 0..2 |->
        CASE i = 0 -> [frequency |-> MIN_MHZ(p) * 1000, driver_data |-> 1]
          [] i = 1 -> [frequency |-> MAX_MHZ(p) * 1000, driver_data |-> 0]
          [] i = 2 -> [frequency |-> CPUFREQ_TABLE_END, driver_data |-> -1]]

FrequencyTable(p) ==
    [i \in 0..2 |->
        CASE i = 0 -> [frequency |-> MAX_MHZ(p) * 1000, driver_data |-> 1]
          [] i = 1 -> [frequency |-> MIN_MHZ(p) * 1000, driver_data |-> 0]
          [] i = 2 -> [frequency |-> CPUFREQ_TABLE_END, driver_data |-> -1]]

\* the range check one entry too wide: the terminator passes as valid
IndexInvalid_OffByOne(max_freq_nodes, index) == max_freq_nodes + 1 < index

\* the range check of sc5xx_target_index: if(max_freq_nodes < index)
IndexInvalid(max_freq_nodes, index) == max_freq_nodes < index

\* the error of set_sc5xx_cpu_freq dropped
TargetReturn_DropsError(err) == 0

\* the tail of sc5xx_target_index: if(IS_ERR_VALUE(err)) return err; return 0;
TargetReturn(err) == IF IS_ERR_VALUE(err) THEN err ELSE 0

\* the guard left out: a platform without a range goes on to the transition
NoRange_Missing(curr_freq, new_freq) == FALSE

\* the guard of sc5xx_target_index: if((!curr_freq)&&(!new_freq))
NoRange(curr_freq, new_freq) == curr_freq = 0 /\ new_freq = 0

-----------------------------------------------------------------------------
(* Frequency query *)

\* returns core_clk_rate as it was before clk_get_rate assigned it
sc5xx_get_cpu_freq_ReadBeforeSet(ok, rate, uninit) ==
    [ret |-> uninit, printed |-> uninit, refs |-> IF ok THEN 1 ELSE 0]

\* ok: clk_get did not return an error pointer; rate: what clk_get_rate
\* reports; uninit: what core_clk_rate holds before it is assigned (the
\* printk reads it).  The handle is never released.
sc5xx_get_cpu_freq(ok, rate, uninit) ==
    IF ~ok
    THEN [ret |-> 0, printed |-> 0, refs |-> 0]
    ELSE [ret |-> rate, printed |-> uninit, refs |-> 1]

-----------------------------------------------------------------------------
(* Divisor calculator *)

\* ignores its divisor: returns what sc5xx_get_cpu_freq returned
calc_cclk_freq(divisor, sysclk_freq) == sysclk_freq

\* ignores its frequency: returns the initial value of its local
calc_cclk_divisor_for_freq(freq) == 0

\* the comparison inverted
SameFreq_Inverted(cclk_freq, new_freq) == cclk_freq # new_freq

\* the comparison of set_sc5xx_cpu_freq: if(calc_cclk_freq(divisor) == new_freq)
SameFreq(cclk_freq, new_freq) == cclk_freq = new_freq

-----------------------------------------------------------------------------
(* Policy verification *)

\* cpufreq_verify_within_limits of the cpufreq framework, on <<min, max>>
cpufreq_verify_within_limits(pol, min, max) ==
    LET min1 == IF pol[1] < min THEN min ELSE pol[1]
        max1 == IF pol[2] < min THEN min ELSE pol[2]
        min2 == IF min1 > max THEN max ELSE min1
        max2 == IF max1 > max THEN max ELSE max1
        min3 == IF min2 > max2 THEN max2 ELSE min2
    IN  <<min3, max2>>

\* min is assigned twice (MIN_MHZ * 1000, then MAX_MHZ * 1000) and max is
\* never assigned: uninit_max is whatever the variable holds.
sc5xx_verify(p, pol, uninit_max) ==
    LET min == MAX_MHZ(p) * 1000
        max == uninit_max
    IN  IF min = 0 /\ max = 0
        THEN [ret |-> -ENODEV, policy |-> pol]
        ELSE [ret |-> 0, policy |-> cpufreq_verify_within_limits(pol, min, max)]

-----------------------------------------------------------------------------
(* State *)

NoCall ==
    [op |-> "none", index |-> 0, new_freq |-> 0, curr_freq |-> 0, ret |-> 0,
     path |-> "none", clk_ok |-> FALSE, clk_gets |-> 0, reg_touched |-> FALSE,
     polls |-> 0, updt_at_start |-> FALSE, flag_cleared |-> FALSE,
     rate_at_start |-> 0, cclk_freq |-> 0, printed |-> 0, policy_in |-> <<0, 0>>,
     policy_out |-> <<0, 0>>, put |-> "none"]

NoPolicy == [transition_latency |-> 0, freq_table |-> FALSE, clk |-> "unset"]

NoCalc == [D |-> 0, ok |-> FALSE, freq |-> 0, div |-> 0, stage |-> 0]

Callers == 1..NumCallers

NoCaller == [pc |-> "idle", new_freq |-> 0, ret |-> 0, path |-> "none"]

NoCallers == [c \in Callers |-> NoCaller]

Init ==
    /\ variant \in Variants
    /\ platform \in Platforms
    /\ sc5xx_frequency_table = FrequencyTable(platform)
    /\ cgu_div \in (IF variant = "cgu" THEN RegValues ELSE {0})
    /\ clk_rate \in Rates
    /\ clk_refs = 0
    /\ policy = NoPolicy
    /\ pc = "idle"
    /\ call = NoCall
    /\ ncalls = 0
    /\ callers = NoCallers
    /\ calc = NoCalc

Enter == pc = "idle" /\ ncalls < MaxCalls /\ ncalls' = ncalls + 1

-----------------------------------------------------------------------------
(* The callbacks of sc5xx_driver *)

\* .verify
Verify ==
    /\ Enter
    /\ \E pmin \in PolicyValues, pmax \in PolicyValues, u \in Uninit :
         /\ pmin <= pmax
         /\ LET r == sc5xx_verify(platform, <<pmin, pmax>>, u)
            IN  call' = [NoCall EXCEPT !.op = "verify", !.ret = r.ret,
                                       !.policy_in = <<pmin, pmax>>,
                                       !.policy_out = r.policy]
    /\ UNCHANGED <<build, callers, cgu_div, clk_rate, clk_refs, policy, pc,
                   calc>>

\* .get
Get ==
    /\ Enter
    /\ \E ok \in BOOLEAN, u \in Uninit :
         LET g == sc5xx_get_cpu_freq(ok, clk_rate, u)
         IN  /\ call' = [NoCall EXCEPT !.op = "get", !.ret = g.ret,
                                       !.clk_ok = ok, !.clk_gets = 1,
                                       !.rate_at_start = clk_rate,
                                       !.printed = g.printed]
             /\ clk_refs' = clk_refs + g.refs
    /\ UNCHANGED <<build, callers, cgu_div, clk_rate, policy, pc, calc>>

\* .init without the IS_ERR test: a failed lookup still returns 0
DriverInit_NoErrorTest ==
    /\ Enter
    /\ \E ok \in BOOLEAN :
         /\ policy' = [transition_latency |-> TRANSITION_LATENCY_NS,
                       freq_table |-> TRUE,
                       clk |-> IF variant = "cgu"
                               THEN (IF ok THEN "held" ELSE "err")
                               ELSE policy.clk]
         /\ clk_refs' = clk_refs + (IF variant = "cgu" /\ ok THEN 1 ELSE 0)
         /\ call' = [NoCall EXCEPT !.op = "init",
                                   !.clk_ok = (variant = "cgu" /\ ok),
                                   !.clk_gets = IF variant = "cgu" THEN 1 ELSE 0]
    /\ UNCHANGED <<build, callers, cgu_div, clk_rate, pc, calc>>

\* .init: the "cgu" build also looks the clock up and keeps the handle
DriverInit ==
    /\ Enter
    /\ IF variant = "cgu"
       THEN \E ok \in BOOLEAN :
              /\ policy' = [transition_latency |-> TRANSITION_LATENCY_NS,
                            freq_table |-> TRUE,
                            clk |-> IF ok THEN "held" ELSE "err"]
              /\ clk_refs' = clk_refs + (IF ok THEN 1 ELSE 0)
              /\ call' = [NoCall EXCEPT !.op = "init", !.clk_ok = ok,
                                        !.clk_gets = 1,
                                        !.ret = IF ok THEN 0 ELSE -ENODEV]
       ELSE /\ policy' = [policy EXCEPT
                             !.transition_latency = TRANSITION_LATENCY_NS,
                             !.freq_table = TRUE]
            /\ clk_refs' = clk_refs
            /\ call' = [NoCall EXCEPT !.op = "init"]
    /\ UNCHANGED <<build, callers, cgu_div, clk_rate, pc, calc>>

\* set_sc5xx_cpu_freq of the "clk" build, whole
SetFreqClk(c, refs) ==
    \E ok \in BOOLEAN, setok \in BOOLEAN :
       /\ pc' = "idle"
       /\ clk_refs' = refs
       /\ IF ~ok
          THEN /\ call' = [c EXCEPT !.ret = TargetReturn(-ENODEV),
                                    !.path = "noclk",
                                    !.clk_gets = c.clk_gets + 1]
               /\ clk_rate' = clk_rate
          ELSE /\ call' = [c EXCEPT !.ret = TargetReturn(IF setok THEN 0
                                                               ELSE -EINVAL),
                                    !.path = IF setok THEN "set" ELSE "seterr",
                                    !.clk_gets = c.clk_gets + 1]
               /\ clk_rate' = IF setok THEN c.new_freq ELSE clk_rate

\* .target_index up to the call of set_sc5xx_cpu_freq; in the "clk" build
\* through to its return
TargetIndex ==
    /\ Enter
    /\ \E index \in Indexes :
         LET max_freq_nodes == sc5xx_frequency_table[0].driver_data
             c0 == [NoCall EXCEPT !.op = "target_index", !.index = index,
                                  !.rate_at_start = clk_rate,
                                  !.updt_at_start = UpdtSet(cgu_div)]
         IN  IF IndexInvalid(max_freq_nodes, index)
             THEN /\ call' = [c0 EXCEPT !.path = "invalid"]
                  /\ UNCHANGED <<cgu_div, clk_rate, clk_refs, pc>>
             ELSE \E ok \in BOOLEAN :
                    LET g == sc5xx_get_cpu_freq(ok, clk_rate, 0)
                        new_freq == sc5xx_frequency_table[index].frequency
                        c1 == [c0 EXCEPT !.new_freq = new_freq,
                                         !.curr_freq = g.ret,
                                         !.clk_ok = ok, !.clk_gets = 1]
                    IN  /\ cgu_div' = cgu_div
                        /\ IF NoRange(g.ret, new_freq)
                           THEN /\ call' = [c1 EXCEPT !.ret = -ENODEV,
                                                      !.path = "nodev"]
                                /\ clk_refs' = clk_refs + g.refs
                                /\ UNCHANGED <<clk_rate, pc>>
                           ELSE IF variant = "cgu"
                           THEN /\ call' = c1
                                /\ pc' = "poll"
                                /\ clk_refs' = clk_refs + g.refs
                                /\ clk_rate' = clk_rate
                           ELSE SetFreqClk(c1, clk_refs + g.refs)
    /\ UNCHANGED <<build, callers, policy, calc>>

-----------------------------------------------------------------------------
(* set_sc5xx_cpu_freq of the "cgu" build, one register access per step *)

\* ioremap and the first readl.  Without CGU_DIV the address is -1: the
\* access may fault, or read whatever word is there.
Poll ==
    /\ pc = "poll"
    /\ \/ /\ ~HasCguDiv(platform)
          /\ pc' = "oops"
          /\ call' = [call EXCEPT !.path = "fault"]
       \/ /\ pc' = IF UpdtSet(cgu_div) THEN "wait" ELSE "program"
          /\ call' = [call EXCEPT !.reg_touched = TRUE]
    /\ UNCHANGED <<build, callers, cgu_div, clk_rate, clk_refs, policy,
                   ncalls, calc>>

\* while(!readl(cgu_div)) ndelay(TRANSITION_LATENCY_NS);
Wait ==
    /\ pc = "wait"
    /\ IF WaitCond(cgu_div)
       THEN /\ pc' = "wait"
            /\ call' = [call EXCEPT
                          !.polls = IF @ < MaxPolls THEN @ + 1 ELSE @]
       ELSE /\ pc' = "program"
            /\ call' = call
    /\ UNCHANGED <<build, callers, cgu_div, clk_rate, clk_refs, policy,
                   ncalls, calc>>

\* the read of CSEL, the comparison, and the clk_put of the handle that
\* was never assigned: it may do nothing, fault, or drop a live reference
Program ==
    /\ pc = "program"
    /\ \E ok \in BOOLEAN :
         LET pll_divisor == Csel(cgu_div)
             g == sc5xx_get_cpu_freq(ok, clk_rate, 0)
             cclk == calc_cclk_freq(pll_divisor, g.ret)
             c1 == [call EXCEPT !.clk_gets = @ + 1, !.cclk_freq = cclk]
             refs == clk_refs + g.refs
         IN  IF SameFreq(cclk, call.new_freq)
             THEN /\ pc' = "idle"
                  /\ call' = [c1 EXCEPT !.ret = TargetReturn(0),
                                        !.path = "same"]
                  /\ clk_refs' = refs
             ELSE \E outcome \in {"nothing", "fault", "put"} :
                    /\ outcome = "put" => refs > 0
                    /\ pc' = IF outcome = "fault" THEN "oops" ELSE "idle"
                    /\ call' = [c1 EXCEPT !.ret = TargetReturn(0),
                                          !.path = "changed",
                                          !.put = outcome]
                    /\ clk_refs' = IF outcome = "put" THEN refs - 1 ELSE refs
    /\ UNCHANGED <<build, callers, cgu_div, clk_rate, policy, ncalls, calc>>

\* the hardware completes an update: UPDT clears
HwClear ==
    /\ variant = "cgu"
    /\ UpdtSet(cgu_div)
    /\ cgu_div' = cgu_div - CGU_DIV_UPDT_MASK
    /\ call' = IF pc \in {"poll", "wait", "program"}
               THEN [call EXCEPT !.flag_cleared = TRUE]
               ELSE call
    /\ UNCHANGED <<build, callers, clk_rate, clk_refs, policy, pc, ncalls,
                   calc>>

Next ==
    \/ Verify
    \/ Get
    \/ DriverInit
    \/ TargetIndex
    \/ Poll
    \/ Wait
    \/ Program
    \/ HwClear

Spec == Init /\ [][Next]_vars

-----------------------------------------------------------------------------
(* The divisor calculator on its own: one conversion each way *)

\* reference rates (Hz) the calculator is applied to
RefRates == {1000000, 24000000, 25000000, 50000000}

InitCalc ==
    /\ variant = "cgu"
    /\ platform = "SC58X"
    /\ sc5xx_frequency_table = FrequencyTable(platform)
    /\ cgu_div = 0
    /\ clk_rate \in RefRates
    /\ clk_refs = 0
    /\ policy = NoPolicy
    /\ pc = "idle"
    /\ call = NoCall
    /\ ncalls = 0
    /\ callers = NoCallers
    /\ calc = NoCalc

\* calc_cclk_freq(D): queries the clock (the handle stays acquired)
CalcFreq ==
    /\ calc.stage = 0
    /\ \E D \in 1..MaxDivisor, ok \in BOOLEAN :
         LET g == sc5xx_get_cpu_freq(ok, clk_rate, 0)
         IN  /\ calc' = [D |-> D, ok |-> ok,
                         freq |-> calc_cclk_freq(D, g.ret),
                         div |-> 0, stage |-> 1]
             /\ clk_refs' = clk_refs + g.refs
    /\ UNCHANGED <<build, callers, cgu_div, clk_rate, policy, pc, call,
                   ncalls>>

\* calc_cclk_divisor_for_freq on the frequency just computed
CalcDivisor ==
    /\ calc.stage = 1
    /\ calc' = [calc EXCEPT !.div = calc_cclk_divisor_for_freq(calc.freq),
                            !.stage = 2]
    /\ UNCHANGED <<build, callers, cgu_div, clk_rate, clk_refs, policy, pc,
                   call, ncalls>>

NextCalc ==
    \/ CalcFreq
    \/ CalcDivisor

SpecCalc == InitCalc /\ [][NextCalc]_vars

-----------------------------------------------------------------------------
(* Several contexts calling target_index of the "cgu" build at once.  The
   driver takes no lock in sc5xx_target_index or set_sc5xx_cpu_freq, so the
   steps of the callers interleave freely; each caller makes one call. *)

InFlight(c) == callers[c].pc \in {"poll", "wait", "program"}

InitConc ==
    /\ variant = "cgu"
    /\ platform \in Platforms
    /\ sc5xx_frequency_table = FrequencyTable(platform)
    /\ cgu_div \in RegValues
    /\ clk_rate \in Rates
    /\ clk_refs = 0
    /\ policy = NoPolicy
    /\ pc = "idle"
    /\ call = NoCall
    /\ ncalls = 0
    /\ callers = NoCallers
    /\ calc = NoCalc

ConcFrame == UNCHANGED <<build, clk_rate, policy, pc, call, ncalls, calc>>

\* sc5xx_target_index up to the call of set_sc5xx_cpu_freq
ConcTargetIndex(c) ==
    /\ callers[c].pc = "idle"
    /\ \E index \in Indexes :
         LET max_freq_nodes == sc5xx_frequency_table[0].driver_data
         IN  IF IndexInvalid(max_freq_nodes, index)
             THEN /\ callers' = [callers EXCEPT ![c].pc = "done",
                                                ![c].path = "invalid"]
                  /\ clk_refs' = clk_refs
             ELSE \E ok \in BOOLEAN :
                    LET g == sc5xx_get_cpu_freq(ok, clk_rate, 0)
                        new_freq == sc5xx_frequency_table[index].frequency
                    IN  /\ clk_refs' = clk_refs + g.refs
                        /\ IF NoRange(g.ret, new_freq)
                           THEN callers' = [callers EXCEPT
                                              ![c].pc = "done",
                                              ![c].ret = -ENODEV,
                                              ![c].path = "nodev"]
                           ELSE callers' = [callers EXCEPT
                                              ![c].pc = "poll",
                                              ![c].new_freq = new_freq]
    /\ cgu_div' = cgu_div
    /\ ConcFrame

ConcPoll(c) ==
    /\ callers[c].pc = "poll"
    /\ \/ /\ ~HasCguDiv(platform)
          /\ callers' = [callers EXCEPT ![c].pc = "oops", ![c].path = "fault"]
       \/ callers' = [callers EXCEPT
                        ![c].pc = IF UpdtSet(cgu_div) THEN "wait"
                                                      ELSE "program"]
    /\ UNCHANGED <<cgu_div, clk_refs>>
    /\ ConcFrame

ConcWait(c) ==
    /\ callers[c].pc = "wait"
    /\ callers' = [callers EXCEPT
                     ![c].pc = IF WaitCond(cgu_div) THEN "wait" ELSE "program"]
    /\ UNCHANGED <<cgu_div, clk_refs>>
    /\ ConcFrame

ConcProgram(c) ==
    /\ callers[c].pc = "program"
    /\ \E ok \in BOOLEAN :
         LET g == sc5xx_get_cpu_freq(ok, clk_rate, 0)
             cclk == calc_cclk_freq(Csel(cgu_div), g.ret)
             refs == clk_refs + g.refs
         IN  IF SameFreq(cclk, callers[c].new_freq)
             THEN /\ callers' = [callers EXCEPT ![c].pc = "done",
                                                ![c].ret = TargetReturn(0),
                                                ![c].path = "same"]
                  /\ clk_refs' = refs
             ELSE \E outcome \in {"nothing", "fault", "put"} :
                    /\ outcome = "put" => refs > 0
                    /\ callers' = [callers EXCEPT
                                     ![c].pc = IF outcome = "fault"
                                               THEN "oops" ELSE "done",
                                     ![c].ret = TargetReturn(0),
                                     ![c].path = "changed"]
                    /\ clk_refs' = IF outcome = "put" THEN refs - 1 ELSE refs
    /\ cgu_div' = cgu_div
    /\ ConcFrame

ConcHwClear ==
    /\ UpdtSet(cgu_div)
    /\ cgu_div' = cgu_div - CGU_DIV_UPDT_MASK
    /\ UNCHANGED <<callers, clk_refs>>
    /\ ConcFrame

NextConc ==
    \/ \E c \in Callers : ConcTargetIndex(c)
    \/ \E c \in Callers : ConcPoll(c)
    \/ \E c \in Callers : ConcWait(c)
    \/ \E c \in Callers : ConcProgram(c)
    \/ ConcHwClear

SpecConc == InitConc /\ [][NextConc]_vars

-----------------------------------------------------------------------------
(* Properties *)

MaxValidIndex == sc5xx_frequency_table[0].driver_data

\* a transition of the "cgu" build that ran set_sc5xx_cpu_freq to its return
TransitionReturned ==
    /\ call.op = "target_index"
    /\ pc = "idle"
    /\ call.path \in {"same", "changed"}

\* C2: a transition that starts with UPDATE_IN_PROGRESS set, and during
\* which the flag never clears, returns an error (HardwareTimeout).
C2_StuckFlagTimesOut ==
    (/\ TransitionReturned
     /\ call.curr_freq > 0
     /\ call.updt_at_start
     /\ ~call.flag_cleared)
        => IS_ERR_VALUE(call.ret)

\* C3: after target_index(i) returned success for a valid i whose table
\* frequency differed from the current frequency, and with the update flag
\* clear, the frequency query reports the frequency of table entry i.
C3_TransitionTakesEffect ==
    (/\ call.op = "target_index"
     /\ pc = "idle"
     /\ call.path \in {"same", "changed", "set"}
     /\ call.ret = 0
     /\ call.curr_freq > 0
     /\ call.new_freq # call.curr_freq
     /\ ~UpdtSet(cgu_div))
        => sc5xx_get_cpu_freq(TRUE, clk_rate, 0).ret = call.new_freq

\* C4: target_index with an index greater than the head entry's
\* remaining count returns 0 at once: no register access, no clock query,
\* and the register, the clock, the handles, the policy and the table are
\* as they were.
C4_OutOfRangeIsNoOp ==
    [][(/\ ncalls' # ncalls
        /\ call'.op = "target_index"
        /\ call'.index > MaxValidIndex)
          => (/\ pc' = "idle"
              /\ call'.ret = 0
              /\ ~call'.reg_touched
              /\ call'.clk_gets = 0
              /\ UNCHANGED <<build, cgu_div, clk_rate, clk_refs,
                             policy>>)]_vars

C4_Witness ==
    /\ call.op = "target_index"
    /\ call.index > MaxValidIndex
    /\ pc = "idle"
    /\ call.ret = 0
    /\ clk_refs > 0

C6_UnsupportedVerifyFails ==
    (/\ call.op = "verify"
     /\ MIN_MHZ(platform) = 0
     /\ MAX_MHZ(platform) = 0)
        => (call.ret = -ENODEV /\ call.policy_out = call.policy_in)

\* C7: verify on a supported platform returns 0 with the policy limits
\* inside [MIN_MHZ*1000, MAX_MHZ*1000], min not above max, and the limits
\* (MIN_MHZ*1000, MAX_MHZ*1000) themselves come back unchanged.
C7_VerifyClampsToTable ==
    (call.op = "verify" /\ MAX_MHZ(platform) # 0)
        => LET lo == MIN_MHZ(platform) * 1000
               hi == MAX_MHZ(platform) * 1000
               out == call.policy_out
           IN  /\ call.ret = 0
               /\ lo <= out[1]
               /\ out[1] <= out[2]
               /\ out[2] <= hi
               /\ (call.policy_in = <<lo, hi>> => out = call.policy_in)

\* C8: for a reference rate R > 0 and a divisor D in 1..15, converting D to
\* a frequency and that frequency back to a divisor gives D.
C8_DivisorRoundTrip ==
    (calc.stage = 2 /\ calc.ok /\ clk_rate > 0) => calc.div = calc.D

\* the shape of the table: entry 0 holds the maximum, the entry at the
\* head's remaining count holds the minimum, the next one is the
\* terminator with remaining count -1, remaining counts strictly descend,
\* and the head's remaining count is the number of entries less two
TableShape ==
    LET t == sc5xx_frequency_table
        n == Cardinality(DOMAIN t)
    IN  /\ DOMAIN t = 0..(n - 1)
        /\ t[0].frequency = MAX_MHZ(platform) * 1000
        /\ MaxValidIndex \in 0..(n - 2)
        /\ t[MaxValidIndex].frequency = MIN_MHZ(platform) * 1000
        /\ t[MaxValidIndex + 1].frequency = CPUFREQ_TABLE_END
        /\ t[MaxValidIndex + 1].driver_data = -1
        /\ \A i \in 0..(n - 2) : t[i].driver_data > t[i + 1].driver_data
        /\ MaxValidIndex = n - 2

\* C9: the table has the shape above in every state, and no step of the
\* driver or of the hardware changes it.
C9_TableInvariant ==
    /\ []TableShape
    /\ [][sc5xx_frequency_table' = sc5xx_frequency_table]_vars

C9_Witness ==
    /\ TableShape
    /\ MAX_MHZ(platform) > MIN_MHZ(platform)
    /\ call.op = "target_index"
    /\ call.path = "changed"
    /\ ncalls = MaxCalls

\* C10: the frequency query returns 0 when the clock lookup failed and the
\* rate of the clock when it succeeded, whatever its local held before.
C10_GetReturnsRateOrZero ==
    call.op = "get"
        => call.ret = (IF call.clk_ok THEN call.rate_at_start ELSE 0)

C10_Witness ==
    /\ call.op = "get"
    /\ ~call.clk_ok
    /\ call.rate_at_start > 0
    /\ call.ret = 0

\* C11 as stated: every init sets the latency, attaches the table, looks
\* the clock up and holds the handle, returning -ENODEV exactly when the
\* lookup failed.
C11_InitAcquiresClock ==
    call.op = "init"
        => (/\ policy.transition_latency = TRANSITION_LATENCY_NS
            /\ policy.freq_table
            /\ call.clk_gets = 1
            /\ (call.clk_ok => (call.ret = 0 /\ policy.clk = "held"))
            /\ (~call.clk_ok => call.ret = -ENODEV))

\* C11, amended: init sets the latency to 50,000 ns and attaches the table;
\* the build of sc5xx-cpufreq.c also looks the clock up once, keeps the
\* handle in the policy and returns 0, or returns -ENODEV when the lookup
\* failed; the other build looks nothing up and returns 0.
C11_InitPerBuild ==
    [][(ncalls' # ncalls /\ call'.op = "init")
          => (/\ policy'.transition_latency = TRANSITION_LATENCY_NS
              /\ policy'.freq_table
              /\ pc' = "idle"
              /\ IF variant = "cgu"
                 THEN /\ call'.clk_gets = 1
                      /\ IF call'.clk_ok
                         THEN /\ call'.ret = 0
                              /\ policy'.clk = "held"
                              /\ clk_refs' = clk_refs + 1
                         ELSE /\ call'.ret = -ENODEV
                              /\ clk_refs' = clk_refs
                 ELSE /\ call'.clk_gets = 0
                      /\ call'.ret = 0
                      /\ policy'.clk = policy.clk
                      /\ clk_refs' = clk_refs)]_vars

C11_Witness ==
    /\ call.op = "init"
    /\ variant = "cgu"
    /\ ~call.clk_ok
    /\ call.ret = -ENODEV
    /\ policy.transition_latency = TRANSITION_LATENCY_NS

\* C12: target_index with a valid index, the current frequency and the
\* table frequency both zero, returns -ENODEV at once: the register is not
\* accessed, the clock is asked only for the current frequency and its rate
\* is not changed.
C12_NoRangeIsRejected ==
    [][(/\ ncalls' # ncalls
        /\ call'.op = "target_index"
        /\ call'.index <= MaxValidIndex
        /\ call'.curr_freq = 0
        /\ call'.new_freq = 0)
          => (/\ pc' = "idle"
              /\ call'.ret = -ENODEV
              /\ ~call'.reg_touched
              /\ call'.clk_gets = 1
              /\ UNCHANGED <<build, cgu_div, clk_rate, policy>>)]_vars

C12_Witness ==
    /\ call.op = "target_index"
    /\ call.index <= MaxValidIndex
    /\ call.curr_freq = 0
    /\ call.new_freq = 0
    /\ call.ret = -ENODEV
    /\ pc = "idle"
    /\ UpdtSet(cgu_div)

\* C13: a transition that returned success with a target other than the
\* computed frequency has written the register: starting with the update
\* flag clear, it set the flag (which is still set, or which the hardware
\* has cleared since).
C13_SuccessWritesRegister ==
    (/\ TransitionReturned
     /\ call.path = "changed"
     /\ call.ret = 0
     /\ call.curr_freq > 0
     /\ ~call.updt_at_start)
        => (UpdtSet(cgu_div) \/ call.flag_cleared)

\* C14: a transition goes on to read DIVISOR_SELECT only from a poll that
\* saw UPDATE_IN_PROGRESS clear; while the flag is set it stays waiting.
C14_ProgramsOnlyAfterClear ==
    [][(pc \in {"poll", "wait"} /\ pc' = "program")
          => ~UpdtSet(cgu_div)]_vars

\* C15: a transition that ended with an error of set_sc5xx_cpu_freq (the
\* lookup failed, or the clock refused the rate) returned that error from
\* target_index and did not access the register; after a failed lookup
\* the clock rate is what it was when the transition started.
C15_ErrorLeavesFrequency ==
    (/\ call.op = "target_index"
     /\ pc = "idle"
     /\ call.path \in {"noclk", "seterr"})
        => (/\ call.ret = (IF call.path = "noclk" THEN -ENODEV ELSE -EINVAL)
            /\ (call.path = "noclk" => clk_rate = call.rate_at_start)
            /\ ~call.reg_touched
            /\ UpdtSet(cgu_div) = call.updt_at_start)

C15_Witness ==
    /\ call.op = "target_index"
    /\ pc = "idle"
    /\ call.path = "noclk"
    /\ call.curr_freq > 0
    /\ call.new_freq > 0
    /\ call.new_freq # call.curr_freq
    /\ IS_ERR_VALUE(call.ret)

\* C16: of the contexts calling target_index at once, at most one is
\* between the first poll of CGU_DIV and the return of set_sc5xx_cpu_freq.
C16_OneTransitionInFlight ==
    Cardinality({c \in Callers : InFlight(c)}) <= 1

\* C17: a transition to a table frequency of zero, with a nonzero current
\* frequency, is rejected: target_index returns an error.
C17_ZeroTargetRejected ==
    (/\ call.op = "target_index"
     /\ pc = "idle"
     /\ call.path \in {"same", "changed", "set", "seterr", "noclk"}
     /\ call.new_freq = 0
     /\ call.curr_freq > 0)
        => IS_ERR_VALUE(call.ret)

\* C18: between callbacks, with no handle held by init, no handle is
\* outstanding (each query and transition released what it acquired), and
\* clk_put was applied only to a handle clk_get returned.
C18_HandlesBalanced ==
    /\ (pc = "idle" /\ policy.clk = "unset") => clk_refs = 0
    /\ call.put = "none"

=============================================================================
